---- MODULE Spec2Model ----
(***************************************************************************)
(* A model of aitop's analysis engine (src/src/analyzer/system_analyzer.py) *)
(* as a state machine: a window of collected data points grows by one      *)
(* sample at a time, and SystemAnalyzer instances are called on it; and of  *)
(* the command line program (src/src/aitop/cli.py) that collects the       *)
(* window and writes reports (src/src/reporter/html_generator.py).         *)
(*                                                                         *)
(* Numbers.  Percent values are integers.  statistics.mean is kept as the  *)
(* exact rational [num, den]; every comparison the code makes on a mean    *)
(* is made on that rational (cross-multiplied), so no rounding is assumed. *)
(* Strings.  The source's Chinese string literals are written in English.  *)
(***************************************************************************)
EXTENDS Integers, Sequences, FiniteSets, TLC

VARIABLES
    analyzers,  \* the fields of each SystemAnalyzer instance (set by __init__)
    data,       \* collected_data: the window handed to the analyzer
    calls,      \* the most recent calls made on the current window, oldest first
    cli,        \* the AITopCLI object: its args and the fields run() works on
    pc,         \* where the command line program is in main() and run()
    clock,      \* the wall clock, in seconds
    reports     \* the reports written so far, oldest first

\* the state of the command line program
cliVars == <<cli, pc, clock, reports>>

vars == <<analyzers, data, calls, cli, pc, clock, reports>>

(***************************************************************************)
(* Bounds of the model                                                     *)
(***************************************************************************)
\* longest window of the facade specification
MaxLen == 2
\* longest window of the series specification
MaxSeries == 6
\* longest window of the repeated-calls specification
MaxCallsLen == 1
\* longest window and longest process list of the process specification
MaxProcLen == 1
MaxProcs == 6
\* largest constant added to every value in the monotonicity check
MaxShift == 16
\* longest window of the example specification
MaxExample == 15
\* longest window of the clock specification
MaxClockLen == 5
\* longest window of the ranking specification, and the number of processes
\* of its long process lists
MaxRankLen == 2
WideCount == 11
\* longest window of the short-window specification
MaxShort == 4
\* the second at which the command line program is no longer followed
MaxClock == 4

\* the SystemAnalyzer instances that exist
Analyzers == {"a1", "a2"}
\* the wall-clock instants datetime.now() may return to analyze
Instants == {0, 1}
\* the percent values a data point of the facade specification may carry
Percents == {50, 80, 95, 96}

(***************************************************************************)
(* Python's dict and list idioms                                           *)
(***************************************************************************)
\* {} : the empty dict
EmptyDict == [k \in {} |-> 0]

\* d.get(k, default)
Get(d, k, default) == IF k \in DOMAIN d THEN d[k] ELSE default

\* the truth value of a dict or list: empty is false
Truthy(d) == DOMAIN d # {}

\* s[-1]
Last(s) == s[Len(s)]

\* s[:n]
Take(s, n) == SubSeq(s, 1, IF Len(s) < n THEN Len(s) ELSE n)

Range(s) == {s[i] : i \in DOMAIN s}

RECURSIVE SumSeq(_)
\* sum(values)
SumSeq(s) == IF s = <<>> THEN 0 ELSE Head(s) + SumSeq(Tail(s))

\* max(values), min(values) of a non-empty list
MaxOf(s) == CHOOSE m \in Range(s) : \A x \in Range(s) : x <= m
MinOf(s) == CHOOSE m \in Range(s) : \A x \in Range(s) : m <= x

\* statistics.mean(values) of a non-empty list, as the exact rational
Mean(s) == [num |-> SumSeq(s), den |-> Len(s)]

\* r > k for a rational r (den > 0) and an integer k
RatGT(r, k) == r.num > k * r.den

(***************************************************************************)
(* SystemAnalyzer.__init__                                                 *)
(***************************************************************************)
cpu_threshold_high == 80
cpu_threshold_critical == 95
memory_threshold_high == 80
memory_threshold_critical == 95
disk_threshold_high == 80
disk_threshold_critical == 95

NewAnalyzer ==
    [cpu_threshold_high |-> cpu_threshold_high,
     cpu_threshold_critical |-> cpu_threshold_critical,
     memory_threshold_high |-> memory_threshold_high,
     memory_threshold_critical |-> memory_threshold_critical,
     disk_threshold_high |-> disk_threshold_high,
     disk_threshold_critical |-> disk_threshold_critical]

(***************************************************************************)
(* The series the analyzer extracts from a window: the items whose         *)
(* 'system' record is present and non-empty, in window order.              *)
(***************************************************************************)
HasSystem(item) == "system" \in DOMAIN item /\ Truthy(item.system)

WithSystem(d) == SelectSeq(d, HasSystem)

CpuValues(d) ==
    [i \in 1..Len(WithSystem(d)) |-> Get(WithSystem(d)[i].system, "cpu_percent", 0)]

MemoryValues(d) ==
    [i \in 1..Len(WithSystem(d)) |-> Get(WithSystem(d)[i].system, "memory_percent", 0)]

(***************************************************************************)
(* SystemAnalyzer._get_time_range                                          *)
(***************************************************************************)
\* duration_formatted, the same duration as text, is left out
get_time_range(d) ==
    LET timestamps == [i \in 1..Len(d) |-> d[i].timestamp]
    IN IF timestamps = <<>> THEN EmptyDict
       ELSE [start |-> MinOf(timestamps),
             end |-> MaxOf(timestamps),
             duration_seconds |-> MaxOf(timestamps) - MinOf(timestamps)]

(***************************************************************************)
(* SystemAnalyzer._analyze_system_health                                   *)
(***************************************************************************)
\* AvgDeduction with the two deductions exchanged
AvgDeductionExchanged(avg, critical, high) ==
    IF RatGT(avg, critical) THEN 15
    ELSE IF RatGT(avg, high) THEN 30
    ELSE 0

\* the deduction for an average: 30 above critical, else 15 above high
AvgDeduction(avg, critical, high) ==
    IF RatGT(avg, critical) THEN 30
    ELSE IF RatGT(avg, high) THEN 15
    ELSE 0

\* PeakDeduction with the peak never counted
PeakDeductionNever(peak, critical) == 0

\* PeakDeduction with >= for >
PeakDeductionAtCritical(peak, critical) == IF peak >= critical THEN 10 ELSE 0

\* the deduction for a peak: 10 above critical
PeakDeduction(peak, critical) == IF peak > critical THEN 10 ELSE 0

\* HealthStatus with > for >=
HealthStatusStrict(health_score) ==
    IF health_score > 80 THEN [status |-> "good", status_color |-> "green"]
    ELSE IF health_score > 60 THEN [status |-> "fair", status_color |-> "yellow"]
    ELSE [status |-> "attention", status_color |-> "red"]

HealthStatus(health_score) ==
    IF health_score >= 80 THEN [status |-> "good", status_color |-> "green"]
    ELSE IF health_score >= 60 THEN [status |-> "fair", status_color |-> "yellow"]
    ELSE [status |-> "attention", status_color |-> "red"]

analyze_system_health(self, d) ==
    IF d = <<>> THEN EmptyDict
    ELSE
    LET cpu_values == CpuValues(d)
        memory_values == MemoryValues(d)
    IN IF cpu_values = <<>> \/ memory_values = <<>> THEN EmptyDict
       ELSE
       LET avg_cpu == Mean(cpu_values)
           avg_memory == Mean(memory_values)
           max_cpu == MaxOf(cpu_values)
           max_memory == MaxOf(memory_values)
           raw == 100
                  - AvgDeduction(avg_cpu, self.cpu_threshold_critical,
                                 self.cpu_threshold_high)
                  - AvgDeduction(avg_memory, self.memory_threshold_critical,
                                 self.memory_threshold_high)
                  - PeakDeduction(max_cpu, self.cpu_threshold_critical)
                  - PeakDeduction(max_memory, self.memory_threshold_critical)
           health_score == IF raw < 0 THEN 0 ELSE raw
       IN [health_score |-> health_score,
           status |-> HealthStatus(health_score).status,
           status_color |-> HealthStatus(health_score).status_color,
           avg_cpu |-> avg_cpu,
           avg_memory |-> avg_memory,
           max_cpu |-> max_cpu,
           max_memory |-> max_memory]

(***************************************************************************)
(* SystemAnalyzer._detect_value_anomalies                                  *)
(* values is a list of (timestamp, value) pairs.  With n values of sum S   *)
(* and sum of squares Q, the sample variance is (n*Q - S*S) / (n*(n-1)),   *)
(* so  std_val > 0  is  n*Q - S*S > 0  and                                 *)
(* abs(value - mean_val) > 2 * std_val  is, squared and cross-multiplied,  *)
(* (n*value - S)^2 * (n-1) > 4 * n * (n*Q - S*S).                          *)
(* The entry's std_dev is kept as that variance (its square).              *)
(***************************************************************************)
\* Variance guarded by len(values) > 0: a single value gives 0 / 0
VarianceFromOne(s) ==
    IF Len(s) > 0
    THEN [num |-> Len(s) * SumSeq([i \in DOMAIN s |-> s[i] * s[i]])
                  - SumSeq(s) * SumSeq(s),
          den |-> Len(s) * (Len(s) - 1)]
    ELSE [num |-> 0, den |-> 1]

\* statistics.stdev(values) squared, as a rational; 0 for fewer than 2 values
Variance(s) ==
    IF Len(s) > 1
    THEN [num |-> Len(s) * SumSeq([i \in DOMAIN s |-> s[i] * s[i]])
                  - SumSeq(s) * SumSeq(s),
          den |-> Len(s) * (Len(s) - 1)]
    ELSE [num |-> 0, den |-> 1]

\* std_val > 0 and abs(value - mean_val) > 2 * std_val
Deviates(value, s) ==
    LET n == Len(s)
        dev == n * value - SumSeq(s)
    IN /\ Variance(s).num > 0
       /\ dev * dev * (n - 1) > 4 * n * Variance(s).num

ThresholdAnomaly(pair, metric_name, threshold) ==
    [type |-> "threshold_exceeded",
     metric |-> metric_name,
     timestamp |-> pair[1],
     value |-> pair[2],
     threshold |-> threshold,
     severity |-> "high"]

StatisticalAnomaly(pair, metric_name, numeric_values) ==
    [type |-> "statistical_anomaly",
     metric |-> metric_name,
     timestamp |-> pair[1],
     value |-> pair[2],
     mean |-> Mean(numeric_values),
     std_dev |-> Variance(numeric_values),
     severity |-> "medium"]

\* ValueAnomaliesOf with the statistical test under an elif: one entry at most
ValueAnomaliesOfMerged(pair, metric_name, threshold, numeric_values) ==
    IF pair[2] > threshold
    THEN <<ThresholdAnomaly(pair, metric_name, threshold)>>
    ELSE IF Deviates(pair[2], numeric_values)
    THEN <<StatisticalAnomaly(pair, metric_name, numeric_values)>>
    ELSE <<>>

\* what one pass of the loop over values appends for one (timestamp, value)
ValueAnomaliesOf(pair, metric_name, threshold, numeric_values) ==
    (IF pair[2] > threshold
     THEN <<ThresholdAnomaly(pair, metric_name, threshold)>> ELSE <<>>)
    \o
    (IF Deviates(pair[2], numeric_values)
     THEN <<StatisticalAnomaly(pair, metric_name, numeric_values)>> ELSE <<>>)

RECURSIVE ValueAnomaliesFrom(_, _, _, _, _)
ValueAnomaliesFrom(i, values, metric_name, threshold, numeric_values) ==
    IF i > Len(values) THEN <<>>
    ELSE ValueAnomaliesOf(values[i], metric_name, threshold, numeric_values)
         \o ValueAnomaliesFrom(i + 1, values, metric_name, threshold, numeric_values)

\* the fewest values _detect_value_anomalies looks at
MinAnomalyValues == 5

\* detect_value_anomalies with the gate of _detect_anomalies (more than 5)
detect_value_anomalies_gated(values, metric_name, threshold) ==
    IF Len(values) <= MinAnomalyValues THEN <<>>
    ELSE ValueAnomaliesFrom(1, values, metric_name, threshold,
                            [i \in DOMAIN values |-> values[i][2]])

detect_value_anomalies(values, metric_name, threshold) ==
    IF Len(values) < MinAnomalyValues THEN <<>>
    ELSE ValueAnomaliesFrom(1, values, metric_name, threshold,
                            [i \in DOMAIN values |-> values[i][2]])

(***************************************************************************)
(* SystemAnalyzer._detect_anomalies                                        *)
(***************************************************************************)
CpuPairs(d) ==
    [i \in 1..Len(WithSystem(d)) |->
        <<WithSystem(d)[i].timestamp, Get(WithSystem(d)[i].system, "cpu_percent", 0)>>]

MemoryPairs(d) ==
    [i \in 1..Len(WithSystem(d)) |->
        <<WithSystem(d)[i].timestamp, Get(WithSystem(d)[i].system, "memory_percent", 0)>>]

\* _detect_anomalies analyses a series only when it is longer than this
AnomalyGate == 5

detect_anomalies(self, d) ==
    (IF Len(CpuPairs(d)) > AnomalyGate
     THEN detect_value_anomalies(CpuPairs(d), "CPU", self.cpu_threshold_critical)
     ELSE <<>>)
    \o
    (IF Len(MemoryPairs(d)) > AnomalyGate
     THEN detect_value_anomalies(MemoryPairs(d), "memory", self.memory_threshold_critical)
     ELSE <<>>)

(***************************************************************************)
(* SystemAnalyzer._generate_recommendations                                *)
(* A description interpolates the latest value: it is kept as the text and *)
(* the value.  An action line is a text and the names it interpolates.     *)
(***************************************************************************)
Line(text) == [text |-> text, names |-> <<>>]

\* CpuTier with >= for > on both thresholds
CpuTierAtThreshold(self, cpu_percent) ==
    IF cpu_percent >= self.cpu_threshold_critical THEN "high"
    ELSE IF cpu_percent >= self.cpu_threshold_high THEN "medium"
    ELSE "none"

\* which branch of the CPU if/elif is taken
CpuTier(self, cpu_percent) ==
    IF cpu_percent > self.cpu_threshold_critical THEN "high"
    ELSE IF cpu_percent > self.cpu_threshold_high THEN "medium"
    ELSE "none"

\* which branch of the memory if/elif is taken
MemoryTier(self, memory_percent) ==
    IF memory_percent > self.memory_threshold_critical THEN "high"
    ELSE IF memory_percent > self.memory_threshold_high THEN "medium"
    ELSE "none"

CpuRecommendation(self, cpu_percent) ==
    IF CpuTier(self, cpu_percent) = "high"
    THEN <<[type |-> "cpu_high",
            priority |-> "high",
            title |-> "CPU usage too high",
            description |-> [text |-> "current CPU usage, check the busy processes",
                             value |-> cpu_percent],
            actions |-> <<Line("look at the top CPU processes with top or htop"),
                          Line("consider terminating unneeded processes"),
                          Line("check for a process stuck in a loop"),
                          Line("consider upgrading hardware or optimising")>>]>>
    ELSE IF CpuTier(self, cpu_percent) = "medium"
    THEN <<[type |-> "cpu_medium",
            priority |-> "medium",
            title |-> "CPU usage rather high",
            description |-> [text |-> "current CPU usage, watch the system load",
                             value |-> cpu_percent],
            actions |-> <<Line("monitor the CPU usage trend"),
                          Line("check for unneeded background processes"),
                          Line("run compute-heavy tasks off-peak")>>]>>
    ELSE <<>>

MemoryRecommendation(self, memory_percent) ==
    IF MemoryTier(self, memory_percent) = "high"
    THEN <<[type |-> "memory_high",
            priority |-> "high",
            title |-> "memory usage too high",
            description |-> [text |-> "current memory usage, may hurt performance",
                             value |-> memory_percent],
            actions |-> <<Line("check the processes using most memory"),
                          Line("consider terminating unneeded processes"),
                          Line("clear the system caches"),
                          Line("consider adding memory or enabling swap")>>]>>
    ELSE IF MemoryTier(self, memory_percent) = "medium"
    THEN <<[type |-> "memory_medium",
            priority |-> "medium",
            title |-> "memory usage rather high",
            description |-> [text |-> "current memory usage, optimise memory use",
                             value |-> memory_percent],
            actions |-> <<Line("monitor the memory usage trend"),
                          Line("check for memory leaks"),
                          Line("consider restarting long-running applications")>>]>>
    ELSE <<>>

\* latest_data['processes'][:5]
TopProcessCount == 5
\* a process is a high-CPU process above this cpu_percent
ProcessCpuLimit == 50

IsHighCpuProcess(p) == Get(p, "cpu_percent", 0) > ProcessCpuLimit

\* top_processes = latest_data['processes'][:5]
top_processes(latest_data) == Take(latest_data.processes, TopProcessCount)

ProcessRecommendation(latest_data) ==
    IF "processes" \in DOMAIN latest_data /\ Truthy(latest_data.processes)
    THEN LET high_cpu_processes ==
                 SelectSeq(top_processes(latest_data), IsHighCpuProcess)
         IN IF high_cpu_processes # <<>>
            THEN <<[type |-> "process_optimization",
                    priority |-> "medium",
                    title |-> "high CPU processes found",
                    description |-> [text |-> "number of high CPU processes",
                                     value |-> Len(high_cpu_processes)],
                    actions |-> <<[text |-> "check processes",
                                   names |-> [i \in DOMAIN high_cpu_processes |->
                                                 high_cpu_processes[i].name]],
                                  Line("consider optimising or restarting them"),
                                  Line("check that the processes work normally")>>]>>
            ELSE <<>>
    ELSE <<>>

\* LatestData reading data[0]
EarliestData(d) == d[1]

\* latest_data = data[-1]
LatestData(d) == Last(d)

\* generate_recommendations sorted by priority: every high before every medium
generate_recommendations_by_priority(self, d) ==
    IF d = <<>> THEN <<>>
    ELSE
    LET latest_data == Last(d)
        system_info == Get(latest_data, "system", EmptyDict)
        all == CpuRecommendation(self, Get(system_info, "cpu_percent", 0))
               \o MemoryRecommendation(self, Get(system_info, "memory_percent", 0))
               \o ProcessRecommendation(latest_data)
    IN SelectSeq(all, LAMBDA r : r.priority = "high")
       \o SelectSeq(all, LAMBDA r : r.priority = "medium")

generate_recommendations(self, d) ==
    IF d = <<>> THEN <<>>
    ELSE
    LET latest_data == LatestData(d)
        system_info == Get(latest_data, "system", EmptyDict)
        cpu_percent == Get(system_info, "cpu_percent", 0)
        memory_percent == Get(system_info, "memory_percent", 0)
    IN CpuRecommendation(self, cpu_percent)
       \o MemoryRecommendation(self, memory_percent)
       \o ProcessRecommendation(latest_data)

(***************************************************************************)
(* statistics.median: the middle of the sorted values, or the mean of the  *)
(* two middle values                                                       *)
(***************************************************************************)
RECURSIVE InsertAscending(_, _)
InsertAscending(sorted, x) ==
    IF sorted = <<>> THEN <<x>>
    ELSE IF x < Head(sorted) THEN <<x>> \o sorted
    ELSE <<Head(sorted)>> \o InsertAscending(Tail(sorted), x)

RECURSIVE Sorted(_)
\* sorted(values)
Sorted(s) ==
    IF s = <<>> THEN <<>>
    ELSE InsertAscending(Sorted(SubSeq(s, 1, Len(s) - 1)), Last(s))

Median(s) ==
    LET n == Len(s)
        half == n \div 2
    IN IF n % 2 = 1
       THEN [num |-> Sorted(s)[half + 1], den |-> 1]
       ELSE [num |-> Sorted(s)[half] + Sorted(s)[half + 1], den |-> 2]

\* how many values of s are above k
CountAbove(s, k) == Cardinality({i \in DOMAIN s : s[i] > k})

\* s[-5:] and s[:5]
TrendSpan == 5
LastSpan(s) == SubSeq(s, Len(s) - TrendSpan + 1, Len(s))
FirstSpan(s) == SubSeq(s, 1, TrendSpan)

(***************************************************************************)
(* SystemAnalyzer._analyze_cpu_usage                                       *)
(* recent_avg > earlier_avg * 1.1 over two spans of equal length is        *)
(* 10 * sum(recent) > 11 * sum(earlier); likewise 0.9 and 9.               *)
(***************************************************************************)
LoadValues(d) ==
    [i \in 1..Len(WithSystem(d)) |-> Get(WithSystem(d)[i].system, "load_avg", 0)]

\* the spike entries: the index runs over cpu_values, the timestamp is read
\* from data at that same index
CpuSpikes(self, d) ==
    LET cpu_values == CpuValues(d)
        hit == SelectSeq([i \in DOMAIN cpu_values |-> i],
                         LAMBDA i : cpu_values[i] > self.cpu_threshold_critical)
    IN [k \in DOMAIN hit |->
           [index |-> hit[k] - 1,
            value |-> cpu_values[hit[k]],
            timestamp |-> d[hit[k]].timestamp]]

SpanTrend(values) ==
    IF Len(values) > TrendSpan
    THEN IF 10 * SumSeq(LastSpan(values)) > 11 * SumSeq(FirstSpan(values))
         THEN "increasing"
         ELSE IF 10 * SumSeq(LastSpan(values)) < 9 * SumSeq(FirstSpan(values))
         THEN "decreasing"
         ELSE "stable"
    ELSE "stable"

analyze_cpu_usage(self, d) ==
    LET cpu_values == CpuValues(d)
        load_values == LoadValues(d)
    IN IF cpu_values = <<>> THEN EmptyDict
       ELSE [average |-> Mean(cpu_values),
             maximum |-> MaxOf(cpu_values),
             minimum |-> MinOf(cpu_values),
             median |-> Median(cpu_values),
             std_deviation |-> Variance(cpu_values),
             load_average |-> Mean(load_values),
             high_usage_periods |-> <<>>,
             spikes |-> CpuSpikes(self, d),
             high_usage_percentage |->
                 [num |-> 100 * CountAbove(cpu_values, self.cpu_threshold_high),
                  den |-> Len(cpu_values)],
             trend |-> SpanTrend(cpu_values)]

(***************************************************************************)
(* SystemAnalyzer._analyze_memory_usage                                    *)
(* increasing_windows > len(windows) * 0.6  is  5 * increasing > 3 * len.  *)
(***************************************************************************)
\* the leak check runs on a series longer than this
LeakGate == 10
\* the length and the stride of a leak window
LeakWindow == 5
\* a window grows when last - first is above this
LeakGrowth == 5

\* [memory_values[i:i+5] for i in range(0, len(memory_values)-4, 5)]
LeakWindows(memory_values) ==
    LET starts == {i \in 0..(Len(memory_values) - LeakWindow) : i % LeakWindow = 0}
    IN [k \in 1..Cardinality(starts) |->
           SubSeq(memory_values, (k - 1) * LeakWindow + 1,
                  IF k * LeakWindow < Len(memory_values)
                  THEN k * LeakWindow ELSE Len(memory_values))]

\* IsGrowing with >= for >
IsGrowingFromFive(window) == Len(window) >= 2 /\ Last(window) - window[1] >= LeakGrowth

IsGrowing(window) == Len(window) >= 2 /\ Last(window) - window[1] > LeakGrowth

MemoryLeaks(memory_values) ==
    IF Len(memory_values) > LeakGate
    THEN LET windows == LeakWindows(memory_values)
             increasing_windows ==
                 Cardinality({k \in DOMAIN windows : IsGrowing(windows[k])})
         IN IF 5 * increasing_windows > 3 * Len(windows)
            THEN <<[severity |-> "warning",
                    description |-> "possible memory leak pattern detected",
                    trend |-> "increasing"]>>
            ELSE <<>>
    ELSE <<>>

MemoryUsedValues(d) ==
    [i \in 1..Len(WithSystem(d)) |-> Get(WithSystem(d)[i].system, "memory_used", 0)]

analyze_memory_usage(self, d) ==
    LET memory_values == MemoryValues(d)
    IN IF memory_values = <<>> THEN EmptyDict
       ELSE [average_percent |-> Mean(memory_values),
             maximum_percent |-> MaxOf(memory_values),
             minimum_percent |-> MinOf(memory_values),
             median_percent |-> Median(memory_values),
             std_deviation |-> Variance(memory_values),
             high_usage_periods |-> <<>>,
             memory_leaks |-> MemoryLeaks(memory_values),
             high_usage_percentage |->
                 [num |-> 100 * CountAbove(memory_values, self.memory_threshold_high),
                  den |-> Len(memory_values)]]

(***************************************************************************)
(* SystemAnalyzer._analyze_processes                                       *)
(* all_processes is a dict keyed by process name, filled in the order the  *)
(* names are first met; a dict keeps that order.                           *)
(***************************************************************************)
HasProcesses(item) == "processes" \in DOMAIN item /\ Truthy(item.processes)

\* every process sample of one item, with the item's timestamp
ItemObservations(item) ==
    IF HasProcesses(item)
    THEN [j \in DOMAIN item.processes |->
             [proc |-> item.processes[j], seen |-> item.timestamp]]
    ELSE <<>>

RECURSIVE Observations(_)
\* every process sample of the window, in the order the two loops visit them
Observations(d) ==
    IF d = <<>> THEN <<>>
    ELSE ItemObservations(Head(d)) \o Observations(Tail(d))

RECURSIVE FirstSeenOrder(_, _)
\* the keys of all_processes in insertion order
FirstSeenOrder(obs, seen) ==
    IF obs = <<>> THEN <<>>
    ELSE IF Head(obs).proc.name \in seen THEN FirstSeenOrder(Tail(obs), seen)
    ELSE <<Head(obs).proc.name>>
         \o FirstSeenOrder(Tail(obs), seen \cup {Head(obs).proc.name})

\* InstancesOf keyed by name and pid: the samples of the name's first pid
InstancesOfFirstPid(d, name) ==
    LET named == SelectSeq(Observations(d), LAMBDA o : o.proc.name = name)
    IN SelectSeq(named, LAMBDA o : o.proc.pid = named[1].proc.pid)

\* all_processes[name]: the samples appended under the name
InstancesOf(d, name) ==
    SelectSeq(Observations(d), LAMBDA o : o.proc.name = name)

\* process_stats[name]
ProcessStats(d, name) ==
    LET info == InstancesOf(d, name)
        cpu_usage == [i \in DOMAIN info |-> Get(info[i].proc, "cpu_percent", 0)]
        memory_usage == [i \in DOMAIN info |-> Get(info[i].proc, "memory_percent", 0)]
    IN [avg_cpu |-> Mean(cpu_usage),
        max_cpu |-> MaxOf(cpu_usage),
        avg_memory |-> Mean(memory_usage),
        max_memory |-> MaxOf(memory_usage),
        instance_count |-> Len(info),
        duration |-> Last(info).seen - info[1].seen]

\* a < b for rationals with positive denominators
RatLess(a, b) == a.num * b.den < b.num * a.den

RECURSIVE InsertDescendingReversed(_, _)
\* InsertDescending as sorted(...)[::-1] would do it: equal keys end up in
\* reverse order
InsertDescendingReversed(sorted, x) ==
    IF sorted = <<>> THEN <<x>>
    ELSE IF ~ RatLess(x.key, Head(sorted).key) THEN <<x>> \o sorted
    ELSE <<Head(sorted)>> \o InsertDescendingReversed(Tail(sorted), x)

RECURSIVE InsertDescending(_, _)
\* sorted(..., reverse=True) keeps equal keys in their original order
InsertDescending(sorted, x) ==
    IF sorted = <<>> THEN <<x>>
    ELSE IF RatLess(Head(sorted).key, x.key) THEN <<x>> \o sorted
    ELSE <<Head(sorted)>> \o InsertDescending(Tail(sorted), x)

RECURSIVE SortedDescending(_)
SortedDescending(s) ==
    IF s = <<>> THEN <<>>
    ELSE InsertDescending(SortedDescending(SubSeq(s, 1, Len(s) - 1)), Last(s))

\* the length of each ranking
TopRanking == 10

\* sorted(process_stats.items(), key=..., reverse=True)[:10]
Ranking(d, field) ==
    LET names == FirstSeenOrder(Observations(d), {})
        keyed == [i \in DOMAIN names |->
                     [key |-> ProcessStats(d, names[i])[field],
                      name |-> names[i],
                      stats |-> ProcessStats(d, names[i])]]
        ranked == Take(SortedDescending(keyed), TopRanking)
    IN [i \in DOMAIN ranked |-> <<ranked[i].name, ranked[i].stats>>]

analyze_processes(d) ==
    LET names == FirstSeenOrder(Observations(d), {})
    IN [total_unique_processes |-> Len(names),
        top_cpu_processes |-> Ranking(d, "avg_cpu"),
        top_memory_processes |-> Ranking(d, "avg_memory"),
        process_stats |-> [n \in Range(names) |-> ProcessStats(d, n)]]

(***************************************************************************)
(* SystemAnalyzer._calculate_trend                                         *)
(* With n values y over x = 0..n-1, Sx = sum(x) and Sy = sum(y):           *)
(*   numerator   * n*n = sum((n*x[i] - Sx) * (n*y[i] - Sy))                *)
(*   denominator * n*n = sum((n*x[i] - Sx) ^ 2)                            *)
(* so slope is the quotient of the two right-hand sides, kept as a         *)
(* rational, and abs(slope) < 0.1 is 10 * abs(num) < den.                  *)
(* The code computes the slope in binary floating point, and its verdict   *)
(* follows the rounded slope: a slope of exactly 0.1 or -0.1 may be        *)
(* rounded to either side of the bound ([10, 95, 96, 96, 10] comes out as  *)
(* 0.09999999999999858, hence 'stable').  The windows of the               *)
(* specifications below are such that the rounded and the exact slope      *)
(* fall on the same side.                                                  *)
(***************************************************************************)
\* the fewest values a trend is computed from
MinTrendValues == 5

Abs(x) == IF x < 0 THEN -x ELSE x

Slope(values) ==
    LET n == Len(values)
        Sx == SumSeq([i \in 1..n |-> i - 1])
        Sy == SumSeq(values)
        numerator == SumSeq([i \in 1..n |-> (n * (i - 1) - Sx) * (n * values[i] - Sy)])
        denominator == SumSeq([i \in 1..n |-> (n * (i - 1) - Sx) * (n * (i - 1) - Sx)])
    IN IF denominator = 0 THEN [num |-> 0, den |-> 1]
       ELSE [num |-> numerator, den |-> denominator]

\* TrendOf with <= for <
TrendOfInclusive(slope) ==
    IF 10 * Abs(slope.num) <= slope.den THEN "stable"
    ELSE IF slope.num > 0 THEN "increasing"
    ELSE "decreasing"

TrendOf(slope) ==
    IF 10 * Abs(slope.num) < slope.den THEN "stable"
    ELSE IF slope.num > 0 THEN "increasing"
    ELSE "decreasing"

calculate_trend(values) ==
    IF Len(values) < MinTrendValues THEN [trend |-> "unknown"]
    ELSE [trend |-> TrendOf(Slope(values)),
          slope |-> Slope(values),
          start_value |-> values[1],
          end_value |-> Last(values),
          change |-> Last(values) - values[1]]

(***************************************************************************)
(* SystemAnalyzer._analyze_trends                                          *)
(***************************************************************************)
HasTimedSystem(item) == "timestamp" \in DOMAIN item /\ HasSystem(item)

\* analyze_trends with a floor of 4 data points
analyze_trends_from_four(d) ==
    IF Len(d) < MinTrendValues - 1 THEN [error |-> "too few data points for a trend"]
    ELSE
    LET timed == SelectSeq(d, HasTimedSystem)
        cpu_values == [i \in DOMAIN timed |-> Get(timed[i].system, "cpu_percent", 0)]
        memory_values == [i \in DOMAIN timed |-> Get(timed[i].system, "memory_percent", 0)]
    IN IF Len(cpu_values) >= MinTrendValues - 1
       THEN [cpu |-> calculate_trend(cpu_values),
             memory |-> calculate_trend(memory_values)]
       ELSE EmptyDict

analyze_trends(d) ==
    IF Len(d) < MinTrendValues THEN [error |-> "too few data points for a trend"]
    ELSE
    LET timed == SelectSeq(d, HasTimedSystem)
        cpu_values == [i \in DOMAIN timed |-> Get(timed[i].system, "cpu_percent", 0)]
        memory_values == [i \in DOMAIN timed |-> Get(timed[i].system, "memory_percent", 0)]
    IN IF Len(cpu_values) >= MinTrendValues
       THEN [cpu |-> calculate_trend(cpu_values),
             memory |-> calculate_trend(memory_values)]
       ELSE EmptyDict

(***************************************************************************)
(* SystemAnalyzer._generate_summary                                        *)
(***************************************************************************)
\* HighPriority keeping every recommendation above low priority
HighPriorityNotLow(recommendations) ==
    SelectSeq(recommendations, LAMBDA r : Get(r, "priority", "") # "low")

HighPriority(recommendations) ==
    SelectSeq(recommendations, LAMBDA r : Get(r, "priority", "") = "high")

generate_summary(self, analysis) ==
    LET cpu_analysis == Get(analysis, "cpu_analysis", EmptyDict)
        memory_analysis == Get(analysis, "memory_analysis", EmptyDict)
        zero == [num |-> 0, den |-> 1]
        high == HighPriority(Get(analysis, "recommendations", <<>>))
    IN [health_status |-> Get(Get(analysis, "system_health", EmptyDict),
                              "status", "unknown"),
        health_score |-> Get(Get(analysis, "system_health", EmptyDict),
                             "health_score", 0),
        key_findings |->
            (IF RatGT(Get(cpu_analysis, "average", zero), self.cpu_threshold_high)
             THEN <<[text |-> "average CPU usage rather high",
                     value |-> Get(cpu_analysis, "average", zero)]>>
             ELSE <<>>)
            \o
            (IF RatGT(Get(memory_analysis, "average_percent", zero),
                      self.memory_threshold_high)
             THEN <<[text |-> "average memory usage rather high",
                     value |-> Get(memory_analysis, "average_percent", zero)]>>
             ELSE <<>>),
        critical_issues |-> [i \in DOMAIN high |-> high[i].title],
        recommendations_count |-> Len(Get(analysis, "recommendations", <<>>)),
        anomalies_count |-> Len(Get(analysis, "anomalies", <<>>))]

(***************************************************************************)
(* SystemAnalyzer.analyze                                                  *)
(* now is what datetime.now() returns during the call.                     *)
(***************************************************************************)
NoDataError == [error |-> "no data to analyse"]

AnalysisSections(self, d, now) ==
    [timestamp |-> now,
     data_points |-> Len(d),
     time_range |-> get_time_range(d),
     system_health |-> analyze_system_health(self, d),
     cpu_analysis |-> analyze_cpu_usage(self, d),
     memory_analysis |-> analyze_memory_usage(self, d),
     process_analysis |-> analyze_processes(d),
     trends |-> analyze_trends(d),
     anomalies |-> detect_anomalies(self, d),
     recommendations |-> generate_recommendations(self, d),
     summary |-> EmptyDict]

\* analyze without the check for an empty window
analyze_unchecked(self, d, now) ==
    LET analysis_result == AnalysisSections(self, d, now)
    IN [analysis_result EXCEPT !.summary = generate_summary(self, analysis_result)]

\* analyze refusing a window below the floor of the trend analysis
analyze_refusing_short(self, d, now) ==
    IF Len(d) < MinTrendValues THEN NoDataError
    ELSE analyze_unchecked(self, d, now)

analyze(self, d, now) ==
    IF d = <<>> THEN NoDataError
    ELSE LET analysis_result == AnalysisSections(self, d, now)
         IN [analysis_result EXCEPT !.summary = generate_summary(self, analysis_result)]

(***************************************************************************)
(* create_parser and AITopCLI.__init__                                     *)
(* Times are whole seconds.                                                *)
(***************************************************************************)
\* the parser's defaults
DefaultArgs ==
    [refresh |-> 1, duration |-> 120, auto_report |-> TRUE,
     continuous |-> FALSE, report_only |-> FALSE]

\* AITopCLI(args), constructed when datetime.now() is now
NewCli(args, now) ==
    [args |-> args,
     running |-> TRUE,
     collection_start_time |-> now,
     refresh_interval |-> args.refresh,
     collection_duration |-> args.duration,
     auto_report |-> args.auto_report]

(***************************************************************************)
(* AITopCLI._get_collection_progress                                       *)
(* progress = min(elapsed / duration, 1.0), and the loop asks whether      *)
(* progress >= 1.0, which is elapsed >= duration.                          *)
(***************************************************************************)
ProgressComplete(self, now) ==
    now - self.collection_start_time >= self.collection_duration

(***************************************************************************)
(* AITopCLI._simple_analysis                                               *)
(* A key finding interpolates an average, printed to one decimal: it is    *)
(* kept as the text and the average.                                       *)
(***************************************************************************)
simple_analysis(collected_data) ==
    IF collected_data = <<>>
    THEN [overall_health |-> 100,
          key_findings |-> <<[text |-> "no data yet"]>>,
          recommendations |-> <<>>,
          anomalies |-> <<>>,
          top_processes |-> <<>>]
    ELSE
    LET cpu_values == CpuValues(collected_data)
        memory_values == MemoryValues(collected_data)
    IN IF cpu_values = <<>>
       THEN [overall_health |-> 100,
             key_findings |-> <<[text |-> "no valid data yet"]>>,
             recommendations |-> <<>>,
             anomalies |-> <<>>,
             top_processes |-> <<>>]
       ELSE
       LET avg_cpu == Mean(cpu_values)
           avg_memory == Mean(memory_values)
           findings ==
               (IF RatGT(avg_cpu, 80)
                THEN <<[text |-> "CPU usage rather high, on average", value |-> avg_cpu]>>
                ELSE <<>>)
               \o (IF RatGT(avg_memory, 80)
                   THEN <<[text |-> "memory usage rather high, on average",
                           value |-> avg_memory]>>
                   ELSE <<>>)
       IN [overall_health |->
               100 - (IF RatGT(avg_cpu, 80) THEN 20 ELSE 0)
                   - (IF RatGT(avg_memory, 80) THEN 20 ELSE 0),
           key_findings |->
               IF findings = <<>>
               THEN <<[text |-> "system running normally, all metrics in range"]>>
               ELSE findings,
           recommendations |->
               (IF RatGT(avg_cpu, 80)
                THEN <<[title |-> "CPU usage optimisation",
                        description |-> "check the high CPU processes"]>>
                ELSE <<>>)
               \o (IF RatGT(avg_memory, 80)
                   THEN <<[title |-> "memory usage optimisation",
                           description |-> "check the memory usage"]>>
                   ELSE <<>>),
           anomalies |-> <<>>,
           top_processes |-> Take(Last(collected_data).processes, 10)]

(***************************************************************************)
(* HTMLReportGenerator._prepare_report_data                                *)
(* What the template shows of the analysis result: the health summary,     *)
(* the performance metrics, the recommendations and the anomalies.  The    *)
(* generation time, the platform, the process tables and the sections the  *)
(* template does not show are left out.                                    *)
(***************************************************************************)
prepare_report_data(collected_data, analysis_result) ==
    LET time_range == Get(analysis_result, "time_range", EmptyDict)
        system_health == Get(analysis_result, "system_health", EmptyDict)
        summary == Get(analysis_result, "summary", EmptyDict)
    IN [report_info |->
            [data_points |-> Len(collected_data),
             analysis_duration |-> Get(time_range, "duration_formatted", "unknown")],
        health_summary |->
            [health_score |-> Get(system_health, "health_score", 0),
             health_status |-> Get(system_health, "status", "unknown"),
             key_findings |-> Get(summary, "key_findings", <<>>),
             critical_issues |-> Get(summary, "critical_issues", <<>>)],
        performance_metrics |->
            [avg_cpu |-> Get(system_health, "avg_cpu", 0),
             max_cpu |-> Get(system_health, "max_cpu", 0),
             avg_memory |-> Get(system_health, "avg_memory", 0),
             max_memory |-> Get(system_health, "max_memory", 0)],
        recommendations |-> Get(analysis_result, "recommendations", <<>>),
        anomalies |-> Get(analysis_result, "anomalies", <<>>)]

(***************************************************************************)
(* AITopCLI._generate_report                                               *)
(* A written report is kept with the data it was made from, the analysis   *)
(* result handed to the generator and what the generator made of it.       *)
(* kind tells the call site: periodic (the loop of run), final (the        *)
(* finally of run) or report_only (main).                                  *)
(***************************************************************************)
WrittenReport(kind, collected_data, now) ==
    [kind |-> kind,
     at |-> now,
     collected_data |-> collected_data,
     analysis_result |-> simple_analysis(collected_data),
     report_data |-> prepare_report_data(collected_data,
                                         simple_analysis(collected_data))]

\* the reports after _generate_report(): nothing is written for an empty buffer
generate_report(kind) ==
    IF data = <<>> THEN reports
    ELSE Append(reports, WrittenReport(kind, data, clock))

(***************************************************************************)
(* The data points.  A data point is what AITopCLI._collect_data_point     *)
(* appends: a timestamp, the system record (empty when reading it failed)  *)
(* and the process list.                                                   *)
(***************************************************************************)
SystemInfo(cpu, mem) == [cpu_percent |-> cpu, memory_percent |-> mem]

Process(pid, name, cpu, mem) ==
    [pid |-> pid, name |-> name, cpu_percent |-> cpu, memory_percent |-> mem]

DataPoint(timestamp, system, processes) ==
    [timestamp |-> timestamp, system |-> system, processes |-> processes]

\* the system records of the facade specification: every pair of percent
\* values, and the empty record of a failed reading
FacadeSystems ==
    {EmptyDict} \cup {SystemInfo(c, m) : c \in Percents, m \in Percents}

\* a process above the high-CPU limit
HotProcess == Process(1, "p1", 60, 10)

\* the data points of the facade specification, less their timestamps:
\* every system record without processes, and three with a hot process
FacadePoints ==
    {[system |-> sys, processes |-> <<>>] : sys \in FacadeSystems}
    \cup {[system |-> sys, processes |-> <<HotProcess>>] :
             sys \in {SystemInfo(50, 50), SystemInfo(95, 96), SystemInfo(96, 50)}}

\* the data points of the series specification: a low, a boundary and a
\* critical reading
SeriesPoints ==
    {[system |-> sys, processes |-> <<>>] :
        sys \in {SystemInfo(20, 50), SystemInfo(95, 95), SystemInfo(96, 96)}}

\* the critical thresholds _detect_value_anomalies is called with
AnomalyThresholds == {20, cpu_threshold_critical}

\* the process lists of the process specification: the process at position j
\* is "p<j>", at or above the high-CPU limit
ProcessNames == <<"p1", "p2", "p3", "p4", "p5", "p6", "p7", "p8",
                  "p9", "p10", "p11", "p12", "p13">>

ProcessAt(j, cpu) == Process(j, ProcessNames[j], cpu, 10)

ProcessLists ==
    UNION {[1..n -> {ProcessCpuLimit, ProcessCpuLimit + 1}] : n \in 0..MaxProcs}

ProcessPoints ==
    {[system |-> SystemInfo(50, 50),
      processes |-> [j \in DOMAIN cpus |-> ProcessAt(j, cpus[j])]] :
        cpus \in ProcessLists}

\* The readings of the example specification come in runs of five data
\* points, the length of a leak window.  A run pairs a CPU run with a memory
\* run: the spec's example series, flat, barely rising and barely falling
\* CPU, and memory that grows by 8, oscillates, grows by exactly 5, shrinks,
\* or grows by 7 through a peak and a dip.
ExampleRun(cpus, mems) == [i \in DOMAIN cpus |-> SystemInfo(cpus[i], mems[i])]

ExampleRuns ==
    {ExampleRun(<<10, 12, 11, 13, 97>>, <<50, 52, 54, 56, 58>>),
     ExampleRun(<<12, 12, 12, 12, 12>>, <<70, 72, 74, 76, 78>>),
     ExampleRun(<<50, 50, 50, 50, 50>>, <<50, 60, 50, 60, 50>>),
     ExampleRun(<<50, 50, 50, 51, 50>>, <<60, 50, 60, 50, 60>>),
     ExampleRun(<<50, 51, 50, 50, 50>>, <<50, 50, 50, 50, 55>>),
     ExampleRun(<<97, 97, 10, 96, 12>>, <<56, 50, 50, 50, 50>>),
     ExampleRun(<<50, 50, 50, 50, 50>>, <<50, 90, 40, 40, 57>>)}

\* the data points that may come next: the window is made of whole runs and
\* the beginning of one more
ExamplePoints(d) ==
    LET begun == Len(d) % LeakWindow
        partial == [i \in 1..begun |-> d[Len(d) - begun + i].system]
        runs == {run \in ExampleRuns : \A i \in 1..begun : run[i] = partial[i]}
    IN {[system |-> run[begun + 1], processes |-> <<>>] : run \in runs}

\* The process lists of the ranking specification.  A process uses 30 or 70
\* percent CPU and the rest, out of 100, of memory; its pid is its position
\* in the list.  The short lists hold A or B alone, A and B in either order,
\* and A twice under two pids; the long lists hold WideCount processes of distinct
\* names, all alike, each busier than the one before, or alternating.
RankProcess(j, name, cpu) == Process(j, name, cpu, 100 - cpu)

ShortLists ==
    {<<>>, <<RankProcess(1, "A", 30), RankProcess(2, "A", 70)>>}
    \cup {<<RankProcess(1, name, cpu)>> : name \in {"A", "B"}, cpu \in {30, 70}}
    \cup {<<RankProcess(1, names[1], a), RankProcess(2, names[2], b)>> :
              names \in {<<"A", "B">>, <<"B", "A">>},
              a \in {30, 70}, b \in {30, 70}}

WideLists ==
    {[j \in 1..WideCount |-> RankProcess(j, ProcessNames[j], 30)],
     [j \in 1..WideCount |-> RankProcess(j, ProcessNames[j], 30 + j)],
     [j \in 1..WideCount |->
         RankProcess(j, ProcessNames[j], IF j % 2 = 0 THEN 70 ELSE 30)]}

RankPoints ==
    {[system |-> SystemInfo(50, 50), processes |-> processes] :
        processes \in ShortLists \cup WideLists}

\* the data points of the clock specification: a quiet reading, and two
\* busier ones with processes
ClockPoints ==
    {[system |-> SystemInfo(50, 50), processes |-> <<>>],
     [system |-> SystemInfo(60, 60), processes |-> <<Process(1, "p1", 60, 10)>>],
     [system |-> SystemInfo(70, 50),
      processes |-> <<Process(2, "p2", 30, 20), Process(1, "p1", 20, 10)>>]}

\* datetime.now() is the wall clock, which can be set back between two
\* collections: the clock specification stamps a data point with the tick
\* of its collection, or with 0 when the clock has been set back to its start
ClockInstants(d) == {0, Len(d)}

\* the data points of the short-window specification: a failed reading, a
\* quiet one with two processes, a high one, and a critical one with a hot
\* process
ShortPoints ==
    {[system |-> EmptyDict, processes |-> <<>>],
     [system |-> SystemInfo(50, 50),
      processes |-> <<Process(2, "p2", 30, 20), Process(1, "p1", 20, 10)>>],
     [system |-> SystemInfo(95, 80), processes |-> <<>>],
     [system |-> SystemInfo(96, 96), processes |-> <<HotProcess>>]}

\* the readings of the command line specification: a quiet one and a busy
\* one with a hot process
CliPoints ==
    {[system |-> SystemInfo(50, 50), processes |-> <<>>],
     [system |-> SystemInfo(90, 90), processes |-> <<HotProcess>>]}

\* a reading that failed: _get_system_info returns {}
FailedReading == [system |-> EmptyDict, processes |-> <<>>]

\* the command lines of the command line specification
Durations == {2, 3}

ArgsSet ==
    {[refresh |-> 1, duration |-> duration, auto_report |-> auto_report,
      continuous |-> continuous, report_only |-> report_only] :
        duration \in Durations, auto_report \in BOOLEAN,
        continuous \in BOOLEAN, report_only \in BOOLEAN}

(***************************************************************************)
(* Actions                                                                 *)
(***************************************************************************)
Init ==
    /\ analyzers = [a \in Analyzers |-> NewAnalyzer]
    /\ data = <<>>
    /\ calls = <<>>
    /\ cli = NewCli(DefaultArgs, 0)
    /\ pc = "run"
    /\ clock = 0
    /\ reports = <<>>

\* the call before the next one, if any
Previous(cs) == IF cs = <<>> THEN <<>> ELSE <<Last(cs)>>

\* AITopCLI._collect_data_point: one more data point, stamped by a clock
\* that ticks once per collection
Collect(point, limit) ==
    /\ Len(data) < limit
    /\ data' = Append(data, DataPoint(Len(data), point.system, point.processes))
    /\ calls' = <<>>
    /\ UNCHANGED <<analyzers, cliVars>>

\* AITopCLI._collect_data_point when datetime.now() returns t
CollectAt(point, limit, t) ==
    /\ Len(data) < limit
    /\ data' = Append(data, DataPoint(t, point.system, point.processes))
    /\ calls' = <<>>
    /\ UNCHANGED <<analyzers, cliVars>>

\* AITopCLI.run: self.collected_data = []
Clear ==
    /\ data # <<>>
    /\ data' = <<>>
    /\ calls' = <<>>
    /\ UNCHANGED <<analyzers, cliVars>>

\* Analyze by an analyzer that raises its critical CPU threshold to the peak
\* it has seen
AnalyzeAdapting(a, now, earlier) ==
    /\ calls' = Append(earlier,
                       [op |-> "analyze", self |-> a,
                        ret |-> analyze(analyzers[a], data, now)])
    /\ analyzers' =
           [analyzers EXCEPT ![a].cpu_threshold_critical =
               IF CpuValues(data) # <<>> /\ MaxOf(CpuValues(data)) > @
               THEN MaxOf(CpuValues(data)) ELSE @]
    /\ UNCHANGED <<data, cliVars>>

\* analyzer a's analyze(collected_data), called at instant now; earlier is
\* the part of the call history that is kept in front of this call
Analyze(a, now, earlier) ==
    /\ calls' = Append(earlier,
                       [op |-> "analyze", self |-> a,
                        ret |-> analyze(analyzers[a], data, now)])
    /\ UNCHANGED <<analyzers, data, cliVars>>

\* analyzer a's _detect_value_anomalies on the CPU or memory series of the
\* window, called directly with a critical threshold
DetectValueAnomalies(a, metric_name, threshold) ==
    LET values == IF metric_name = "CPU" THEN CpuPairs(data) ELSE MemoryPairs(data)
    IN /\ calls' = <<[op |-> "detect_value_anomalies", self |-> a,
                      values |-> values, threshold |-> threshold,
                      ret |-> detect_value_anomalies(values, metric_name, threshold)]>>
       /\ UNCHANGED <<analyzers, data, cliVars>>

\* No call has been made on the window as it stands.  A call changes neither
\* the window nor an analyzer, so the calls made on a fresh window are all the
\* calls there are; NextCalls drops this to look at calls that follow calls.
Fresh == calls = <<>>

\* The facade: windows of up to MaxLen data points
Next ==
    \/ \E point \in FacadePoints : Collect(point, MaxLen)
    \/ Clear
    \/ \E a \in Analyzers, now \in Instants : Fresh /\ Analyze(a, now, <<>>)

Spec == Init /\ [][Next]_vars

\* Repeated calls: the call before is kept beside each call
NextCalls ==
    \/ \E point \in FacadePoints : Collect(point, MaxCallsLen)
    \/ Clear
    \/ \E a \in Analyzers, now \in Instants : Analyze(a, now, Previous(calls))

SpecCalls == Init /\ [][NextCalls]_vars

\* Long series: windows of up to MaxSeries data points
NextSeries ==
    \/ \E point \in SeriesPoints : Collect(point, MaxSeries)
    \/ Clear
    \/ \E a \in Analyzers, now \in Instants : Fresh /\ Analyze(a, now, <<>>)
    \/ \E a \in Analyzers, metric_name \in {"CPU", "memory"},
          threshold \in AnomalyThresholds :
           Fresh /\ DetectValueAnomalies(a, metric_name, threshold)

SpecSeries == Init /\ [][NextSeries]_vars

\* Process lists: windows of up to MaxProcLen data points with processes
NextProc ==
    \/ \E point \in ProcessPoints : Collect(point, MaxProcLen)
    \/ Clear
    \/ \E a \in Analyzers, now \in Instants : Fresh /\ Analyze(a, now, <<>>)

SpecProc == Init /\ [][NextProc]_vars

\* Which analyzer is called, and when, changes nothing in a report but its
\* timestamp: the specifications of long windows call one analyzer at one
\* instant.
OneAnalyzer == CHOOSE a \in Analyzers : TRUE
OneInstant == CHOOSE now \in Instants : TRUE

\* AITopCLI.run skips a reading that fails and collects nothing for it: in
\* the example specification the reading after each run of five fails, so
\* the data point kept after i others is stamped i + i div 5.
ExampleInstant(i) == i + (i \div LeakWindow)

\* The examples: windows of up to MaxExample data points made of example runs
NextExample ==
    \/ \E point \in ExamplePoints(data) :
           CollectAt(point, MaxExample, ExampleInstant(Len(data)))
    \/ Clear
    \/ Fresh /\ Analyze(OneAnalyzer, OneInstant, <<>>)
    \/ \E metric_name \in {"CPU", "memory"} :
           Fresh /\ DetectValueAnomalies(OneAnalyzer, metric_name,
                                         analyzers[OneAnalyzer].cpu_threshold_critical)

SpecExample == Init /\ [][NextExample]_vars

\* The rankings: windows of up to MaxRankLen data points with process lists
NextRank ==
    \/ \E point \in RankPoints : Collect(point, MaxRankLen)
    \/ Clear
    \/ Fresh /\ Analyze(OneAnalyzer, OneInstant, <<>>)

SpecRank == Init /\ [][NextRank]_vars

\* The clock: windows of up to MaxClockLen data points whose timestamps need
\* not be in order
NextClock ==
    \/ \E point \in ClockPoints, t \in ClockInstants(data) :
           CollectAt(point, MaxClockLen, t)
    \/ Clear
    \/ Fresh /\ Analyze(OneAnalyzer, OneInstant, <<>>)

SpecClock == Init /\ [][NextClock]_vars

\* Short windows: windows of up to MaxShort data points, below and at the
\* floors of the trend, anomaly and leak analyses
NextShort ==
    \/ \E point \in ShortPoints : Collect(point, MaxShort)
    \/ Clear
    \/ Fresh /\ Analyze(OneAnalyzer, OneInstant, <<>>)

SpecShort == Init /\ [][NextShort]_vars

(***************************************************************************)
(* The command line program: main() and AITopCLI.run().  pc is "run"       *)
(* before the loop of run, "loop" at the top of the loop, "check" after a  *)
(* data point is collected, "reported" after a periodic report, "sleep"    *)
(* before the wait, "finally" in the finally clause, "report_only" in the  *)
(* loop of main, and "exited" when the process is gone.                    *)
(***************************************************************************)
InitCli ==
    /\ analyzers = [a \in Analyzers |-> NewAnalyzer]
    /\ data = <<>>
    /\ calls = <<>>
    /\ clock = 0
    /\ reports = <<>>
    /\ \E args \in ArgsSet :
           /\ cli = NewCli(args, 0)
           /\ pc = IF args.report_only THEN "report_only" ELSE "run"

\* run: the messages and time.sleep(1) before the loop
Start ==
    /\ pc = "run"
    /\ clock < MaxClock
    /\ pc' = "loop"
    /\ clock' = clock + 1
    /\ UNCHANGED <<analyzers, data, calls, cli, reports>>

\* run: _get_system_info returns {} and the loop continues at once; the
\* failed reading took a second
ReadFails ==
    /\ pc = "loop"
    /\ cli.running
    /\ clock < MaxClock
    /\ clock' = clock + 1
    /\ UNCHANGED <<analyzers, data, calls, cli, pc, reports>>

\* run: a reading is taken, displayed and collected
ReadAndCollect(point) ==
    /\ pc = "loop"
    /\ cli.running
    /\ data' = Append(data, DataPoint(clock, point.system, point.processes))
    /\ pc' = "check"
    /\ UNCHANGED <<analyzers, calls, cli, clock, reports>>

\* run: the progress check, and the periodic report when it is due
CheckProgress ==
    /\ pc = "check"
    /\ IF ProgressComplete(cli, clock) /\ cli.auto_report
       THEN /\ reports' = generate_report("periodic")
            /\ pc' = "reported"
       ELSE /\ pc' = "sleep"
            /\ UNCHANGED reports
    /\ UNCHANGED <<analyzers, data, calls, cli, clock>>

\* Restart leaving the buffer as it is
RestartKeepingData ==
    /\ cli' = [cli EXCEPT !.collection_start_time = clock]
    /\ pc' = "sleep"
    /\ UNCHANGED data

\* run, continuous mode: collection starts again
Restart ==
    /\ cli' = [cli EXCEPT !.collection_start_time = clock]
    /\ data' = <<>>
    /\ pc' = "sleep"

\* run: after the periodic report, break or start again
AfterReport ==
    /\ pc = "reported"
    /\ IF ~ cli.args.continuous
       THEN /\ pc' = "finally"
            /\ UNCHANGED <<cli, data>>
       ELSE Restart
    /\ UNCHANGED <<analyzers, calls, clock, reports>>

\* run: time.sleep(self.refresh_interval)
Sleep ==
    /\ pc = "sleep"
    /\ clock < MaxClock
    /\ clock' = clock + cli.refresh_interval
    /\ pc' = "loop"
    /\ UNCHANGED <<analyzers, data, calls, cli, reports>>

\* run: the finally clause, then the process ends
Finally ==
    /\ pc = "finally"
    /\ reports' = IF data # <<>> /\ cli.auto_report
                  THEN generate_report("final") ELSE reports
    /\ pc' = "exited"
    /\ UNCHANGED <<analyzers, data, calls, cli, clock>>

\* SIGINT or SIGTERM: _signal_handler clears running and calls sys.exit(0).
\* SystemExit is raised where the program is: inside the try of run it
\* passes both except clauses and reaches the finally clause; before that
\* try, and in the loop of main, nothing catches it.
Signal ==
    /\ pc \in {"run", "loop", "check", "reported", "sleep", "report_only"}
    /\ cli' = [cli EXCEPT !.running = FALSE]
    /\ pc' = IF pc \in {"loop", "check", "reported", "sleep"}
             THEN "finally" ELSE "exited"
    /\ UNCHANGED <<analyzers, data, calls, clock, reports>>

\* main, --report-only: one round of the loop, a reading collected as it
\* comes and time.sleep(1)
ReportOnlyCollect(point) ==
    /\ pc = "report_only"
    /\ Len(data) < cli.args.duration
    /\ clock < MaxClock
    /\ data' = Append(data, DataPoint(clock, point.system, point.processes))
    /\ clock' = clock + 1
    /\ UNCHANGED <<analyzers, calls, cli, pc, reports>>

\* main, --report-only: the report after the loop
ReportOnlyReport ==
    /\ pc = "report_only"
    /\ Len(data) = cli.args.duration
    /\ reports' = generate_report("report_only")
    /\ pc' = "exited"
    /\ UNCHANGED <<analyzers, data, calls, cli, clock>>

NextCli ==
    \/ Start
    \/ ReadFails
    \/ \E point \in CliPoints : ReadAndCollect(point)
    \/ CheckProgress
    \/ AfterReport
    \/ Sleep
    \/ Finally
    \/ Signal
    \/ \E point \in CliPoints \cup {FailedReading} : ReportOnlyCollect(point)
    \/ ReportOnlyReport

SpecCli == InitCli /\ [][NextCli]_vars

\* what the program does of its own; the process is scheduled as long as it
\* has something to do, so a step of the program that stays possible is taken
Program ==
    \/ Start
    \/ ReadFails
    \/ \E point \in CliPoints : ReadAndCollect(point)
    \/ CheckProgress
    \/ AfterReport
    \/ Sleep
    \/ Finally
    \/ \E point \in CliPoints \cup {FailedReading} : ReportOnlyCollect(point)
    \/ ReportOnlyReport

SpecCliLive == SpecCli /\ WF_vars(Program)

(***************************************************************************)
(* What the properties below talk about                                    *)
(***************************************************************************)
\* the latest call was analyze, and what it returned
Analysed == calls # <<>> /\ Last(calls).op = "analyze"
Report == Last(calls).ret
Caller == analyzers[Last(calls).self]

\* analyze returned a report on a non-empty window
HasReport == Analysed /\ data # <<>>

\* the report carries a health assessment
HasScore == HasReport /\ Truthy(Report.system_health)
Score == Report.system_health.health_score

\* the latest call was _detect_value_anomalies
ValueCall == calls # <<>> /\ Last(calls).op = "detect_value_anomalies"

\* the value of the latest data point, as the recommendation engine reads it
LatestPercent(field) == Get(Get(Last(data), "system", EmptyDict), field, 0)

(***************************************************************************)
(* C1: for a non-empty window with system metrics, the health score is 100 *)
(* minus 30 if the average CPU is above 95, else 15 if it is above 80,     *)
(* minus the same for memory, minus 10 if the peak CPU is above 95, minus  *)
(* 10 if the peak memory is above 95, averages and peaks over the window.  *)
(***************************************************************************)
C1_Deduction(values) ==
    (IF SumSeq(values) > 95 * Len(values) THEN 30
     ELSE IF SumSeq(values) > 80 * Len(values) THEN 15 ELSE 0)
    + (IF \E i \in DOMAIN values : values[i] > 95 THEN 10 ELSE 0)

C1_HealthScoreIsSumOfDeductions ==
    (HasReport /\ WithSystem(data) # <<>>) =>
        /\ HasScore
        /\ Score = 100 - C1_Deduction(CpuValues(data)) - C1_Deduction(MemoryValues(data))

\* CPU average and peak above 95, memory average in (80, 95] with a peak above 95
C1_Witness ==
    /\ HasScore
    /\ CpuValues(data) = <<96, 96>>
    /\ MemoryValues(data) = <<80, 96>>
    /\ Score = 35

(***************************************************************************)
(* C2: the health score is an integer in 0..100; the status is good        *)
(* exactly when the score is at least 80, fair exactly when it is at least *)
(* 60 and below 80, attention exactly when it is below 60.                 *)
(***************************************************************************)
C2_ScoreRangeAndStatus ==
    HasScore =>
        /\ Score \in 0..100
        /\ Report.system_health.status \in {"good", "fair", "attention"}
        /\ Report.system_health.status = "good" <=> Score >= 80
        /\ Report.system_health.status = "fair" <=> (Score >= 60 /\ Score < 80)
        /\ Report.system_health.status = "attention" <=> Score < 60

\* a score on the boundary between fair and good
C2_Witness ==
    /\ HasScore
    /\ Score = 80
    /\ Report.system_health.status = "good"

(***************************************************************************)
(* C3: adding a constant c >= 0 to every cpu_percent and memory_percent of *)
(* the window never gives a higher health score.                           *)
(***************************************************************************)
Shifted(d, c) ==
    [i \in DOMAIN d |->
        IF HasSystem(d[i])
        THEN [d[i] EXCEPT !.system.cpu_percent = @ + c,
                          !.system.memory_percent = @ + c]
        ELSE d[i]]

ShiftedScore(c) == analyze_system_health(Caller, Shifted(data, c)).health_score

C3_ScoreMonotone ==
    HasScore => \A c \in 0..MaxShift : ShiftedScore(c) <= Score

\* a shift that does lower the score, and one that does not
C3_Witness ==
    /\ HasScore
    /\ \E c \in 1..MaxShift : ShiftedScore(c) < Score
    /\ \E c \in 1..MaxShift : ShiftedScore(c) = Score

(***************************************************************************)
(* C4: two analyze calls on the same window, by the same analyzer or by    *)
(* two, at any instants, return reports that are equal in every field but  *)
(* the generation timestamp.                                               *)
(***************************************************************************)
WithoutTimestamp(r) == [k \in DOMAIN r \ {"timestamp"} |-> r[k]]

C4_Deterministic ==
    (Len(calls) = 2 /\ calls[1].op = "analyze" /\ calls[2].op = "analyze") =>
        WithoutTimestamp(calls[1].ret) = WithoutTimestamp(calls[2].ret)

\* two analyzers, two instants, a window with something to report
C4_Witness ==
    /\ Len(calls) = 2
    /\ data # <<>>
    /\ calls[1].self # calls[2].self
    /\ calls[1].ret.timestamp # calls[2].ret.timestamp
    /\ calls[2].ret.recommendations # <<>>

(***************************************************************************)
(* C5: analyze on an empty window returns the no-data error value, which   *)
(* holds no report section.                                                *)
(***************************************************************************)
C5_EmptyWindowIsNoData ==
    (Analysed /\ data = <<>>) => DOMAIN Report = {"error"}

C5_Witness ==
    /\ Analysed
    /\ data = <<>>
    /\ "error" \in DOMAIN Report

(***************************************************************************)
(* C6: for CPU and for memory, with v the latest data point's percent      *)
(* value: exactly one high-priority recommendation of the dimension when   *)
(* v > 95, exactly one medium-priority one when 80 < v <= 95, none when    *)
(* v <= 80.                                                                *)
(***************************************************************************)
\* the priorities of the recommendations of one dimension, in list order
PrioritiesOf(recommendations, types) ==
    LET own == SelectSeq(recommendations, LAMBDA r : r.type \in types)
    IN [i \in DOMAIN own |-> own[i].priority]

C6_Expected(v) ==
    IF v > 95 THEN <<"high">> ELSE IF v > 80 THEN <<"medium">> ELSE <<>>

C6_TwoTierRecommendations ==
    HasReport =>
        /\ PrioritiesOf(Report.recommendations, {"cpu_high", "cpu_medium"})
               = C6_Expected(LatestPercent("cpu_percent"))
        /\ PrioritiesOf(Report.recommendations, {"memory_high", "memory_medium"})
               = C6_Expected(LatestPercent("memory_percent"))

\* the example: a critical CPU and a normal memory reading, nothing else
C6_Witness ==
    /\ HasReport
    /\ LatestPercent("cpu_percent") = 96
    /\ LatestPercent("memory_percent") = 50
    /\ Len(Report.recommendations) = 1
    /\ Report.recommendations[1].type = "cpu_high"
    /\ Report.recommendations[1].priority = "high"

(***************************************************************************)
(* C7, as claimed: no medium-priority recommendation comes before a        *)
(* high-priority one.                                                      *)
(***************************************************************************)
C7_HighBeforeMedium ==
    HasReport =>
        \A i, j \in DOMAIN Report.recommendations :
            i < j => ~ (/\ Report.recommendations[i].priority = "medium"
                        /\ Report.recommendations[j].priority = "high")

(***************************************************************************)
(* C7, amended: the recommendations come in the order CPU, memory,         *)
(* process, at most one of each; so a medium-priority recommendation       *)
(* comes before a high-priority one only as the medium CPU recommendation  *)
(* before the high memory recommendation.                                  *)
(***************************************************************************)
DimensionRank(type) ==
    IF type \in {"cpu_high", "cpu_medium"} THEN 1
    ELSE IF type \in {"memory_high", "memory_medium"} THEN 2
    ELSE 3

C7_DimensionOrder ==
    HasReport =>
        \A i, j \in DOMAIN Report.recommendations :
            i < j =>
                /\ DimensionRank(Report.recommendations[i].type)
                       < DimensionRank(Report.recommendations[j].type)
                /\ (/\ Report.recommendations[i].priority = "medium"
                    /\ Report.recommendations[j].priority = "high")
                   => /\ Report.recommendations[i].type = "cpu_medium"
                      /\ Report.recommendations[j].type = "memory_high"

\* a medium CPU, a high memory and a process recommendation, in that order
C7_Witness ==
    /\ HasReport
    /\ [i \in DOMAIN Report.recommendations |-> Report.recommendations[i].type]
           = <<"cpu_medium", "memory_high", "process_optimization">>

(***************************************************************************)
(* C8: the recommendations are those of the latest data point alone: every *)
(* window that ends with the same data point gets the same list.           *)
(***************************************************************************)
\* the window without its first k data points
Suffix(d, k) == SubSeq(d, k + 1, Len(d))

C8_LatestSampleOnly ==
    HasReport =>
        \A k \in 0..(Len(data) - 1) :
            generate_recommendations(Caller, Suffix(data, k)) = Report.recommendations

\* an earlier data point that alone would get another list
C8_Witness ==
    /\ HasReport
    /\ Len(data) >= 2
    /\ Report.recommendations # <<>>
    /\ generate_recommendations(Caller, <<data[1]>>) # <<>>
    /\ generate_recommendations(Caller, <<data[1]>>) # Report.recommendations

(***************************************************************************)
(* C9, as claimed: with T the five processes of the latest data point with *)
(* the highest cpu_percent, whatever the order of the list, exactly one    *)
(* medium-priority process recommendation is emitted when a process of T   *)
(* is above 50, naming all and only those processes of T; none otherwise.  *)
(***************************************************************************)
\* the choices of T: five positions (all, if there are fewer) none of which
\* is below a position left out
HighestFive(processes) ==
    {T \in SUBSET DOMAIN processes :
        /\ Cardinality(T) = (IF Len(processes) < 5 THEN Len(processes) ELSE 5)
        /\ \A j \in T, k \in DOMAIN processes \ T :
               processes[j].cpu_percent >= processes[k].cpu_percent}

ProcessRecommendations ==
    SelectSeq(Report.recommendations, LAMBDA r : r.type = "process_optimization")

C9_HighestFiveByCpu ==
    HasReport =>
        LET processes == Last(data).processes
            named == ProcessRecommendations[1].actions[1].names
        IN IF \E j \in DOMAIN processes : processes[j].cpu_percent > 50
           THEN /\ Len(ProcessRecommendations) = 1
                /\ ProcessRecommendations[1].priority = "medium"
                /\ \E T \in HighestFive(processes) :
                       /\ Range(named)
                              = {processes[j].name :
                                    j \in {t \in T : processes[t].cpu_percent > 50}}
                       /\ Len(named)
                              = Cardinality({t \in T : processes[t].cpu_percent > 50})
           ELSE ProcessRecommendations = <<>>

(***************************************************************************)
(* C10: called with at least 5 (timestamp, value) pairs and a threshold,   *)
(* _detect_value_anomalies emits, in series order, exactly one             *)
(* threshold_exceeded entry of severity high for each pair whose value is  *)
(* above the threshold, with that pair's timestamp and value, and none for *)
(* a pair whose value is not above it.                                     *)
(***************************************************************************)
C10_ThresholdEntries ==
    (ValueCall /\ Len(Last(calls).values) >= 5) =>
        LET call == Last(calls)
            entries == SelectSeq(call.ret, LAMBDA e : e.type = "threshold_exceeded")
            above == SelectSeq(call.values, LAMBDA pair : pair[2] > call.threshold)
        IN /\ Len(entries) = Len(above)
           /\ \A i \in DOMAIN entries :
                  /\ entries[i].timestamp = above[i][1]
                  /\ entries[i].value = above[i][2]
                  /\ entries[i].severity = "high"

\* exactly five pairs, some above the threshold and some at it
C10_Witness ==
    /\ ValueCall
    /\ Len(Last(calls).values) = 5
    /\ \E i \in 1..5 : Last(calls).values[i][2] = Last(calls).threshold
    /\ \E i \in 2..5 : Last(calls).values[i][2] > Last(calls).threshold
    /\ \E e \in Range(Last(calls).ret) : e.type = "threshold_exceeded"

(***************************************************************************)
(* C11, as claimed: for a window of N data points that all carry system    *)
(* metrics, the report's anomaly list is empty when N < 5, and when N >= 5 *)
(* (N = 5 included) every data point whose CPU or memory value is above 95 *)
(* appears in the anomaly list.                                            *)
(***************************************************************************)
\* the anomaly list holds an entry of the metric for data point i
C11_Listed(metric_name, field, i) ==
    \E e \in Range(Report.anomalies) :
        /\ e.metric = metric_name
        /\ e.timestamp = data[i].timestamp
        /\ e.value = data[i].system[field]

C11_AnomaliesFromFive ==
    (HasReport /\ \A i \in DOMAIN data : HasSystem(data[i])) =>
        IF Len(data) < 5
        THEN Report.anomalies = <<>>
        ELSE \A i \in DOMAIN data :
                /\ data[i].system.cpu_percent > 95
                       => C11_Listed("CPU", "cpu_percent", i)
                /\ data[i].system.memory_percent > 95
                       => C11_Listed("memory", "memory_percent", i)

(***************************************************************************)
(* C12: called on a series of at least 5 values, _detect_value_anomalies   *)
(* emits, in series order, one statistical entry of severity medium for    *)
(* exactly the values whose absolute deviation from the mean of the whole  *)
(* series is more than twice the sample standard deviation (divisor N-1)   *)
(* of the whole series; a value that is also above the threshold gets two  *)
(* entries, a threshold entry and then a statistical one.                  *)
(* With S the sum of the n values, n*(v - mean) = n*v - S and              *)
(* n*n*(N-1)*stdev^2 = the sum of (n*x - S)^2 over the values x, so the    *)
(* test is (n*v - S)^2 * (n-1) > 4 * that sum.                             *)
(***************************************************************************)
C12_FarFromMean(v, series) ==
    LET n == Len(series)
        S == SumSeq(series)
        squares == SumSeq([i \in DOMAIN series |->
                              (n * series[i] - S) * (n * series[i] - S)])
    IN (n * v - S) * (n * v - S) * (n - 1) > 4 * squares

C12_StatisticalEntries ==
    (ValueCall /\ Len(Last(calls).values) >= 5) =>
        LET call == Last(calls)
            series == [i \in DOMAIN call.values |-> call.values[i][2]]
            far == SelectSeq(call.values, LAMBDA pair : C12_FarFromMean(pair[2], series))
            entries == SelectSeq(call.ret, LAMBDA e : e.type = "statistical_anomaly")
            \* the types of the entries of one pair, in list order
            typesAt(pair) ==
                LET own == SelectSeq(call.ret, LAMBDA e : e.timestamp = pair[1])
                IN [k \in DOMAIN own |-> own[k].type]
        IN /\ Len(entries) = Len(far)
           /\ \A i \in DOMAIN entries :
                  /\ entries[i].timestamp = far[i][1]
                  /\ entries[i].value = far[i][2]
                  /\ entries[i].severity = "medium"
           /\ \A pair \in Range(far) :
                  pair[2] > call.threshold
                      => typesAt(pair) = <<"threshold_exceeded", "statistical_anomaly">>

\* the example: [10,12,11,13,97,12] against 95 flags index 4 twice, nothing else
C12_Witness ==
    /\ ValueCall
    /\ [i \in DOMAIN Last(calls).values |-> Last(calls).values[i][2]]
           = <<10, 12, 11, 13, 97, 12>>
    /\ Last(calls).threshold = 95
    /\ [k \in DOMAIN Last(calls).ret |->
           <<Last(calls).ret[k].timestamp, Last(calls).ret[k].type>>]
           = <<<<4, "threshold_exceeded">>, <<4, "statistical_anomaly">>>>

(***************************************************************************)
(* C13: for a memory series the leak check runs on (more than 10 values),  *)
(* the windows are the blocks [0..4], [5..9], ... of 5 values, a remainder *)
(* of fewer than 5 being left out (N div 5 windows); a window grows when   *)
(* its last value minus its first is above 5; exactly one finding, of      *)
(* severity warning, is emitted when more than 60% of the windows grow,    *)
(* and none otherwise.                                                     *)
(***************************************************************************)
\* the blocks of the series that grow, numbered from 0
C13_Growing(series) ==
    {k \in 0..((Len(series) \div 5) - 1) : series[5 * k + 5] - series[5 * k + 1] > 5}

C13_Expected(series) ==
    IF 100 * Cardinality(C13_Growing(series)) > 60 * (Len(series) \div 5)
    THEN 1 ELSE 0

C13_LeakRule ==
    (HasReport /\ Len(MemoryValues(data)) > 10) =>
        LET findings == Report.memory_analysis.memory_leaks
        IN /\ Len(findings) = C13_Expected(MemoryValues(data))
           /\ \A i \in DOMAIN findings : findings[i].severity = "warning"

\* three windows of which two grow: one finding
C13_Witness ==
    /\ HasReport
    /\ Len(MemoryValues(data)) = 15
    /\ Cardinality(C13_Growing(MemoryValues(data))) = 2
    /\ Len(Report.memory_analysis.memory_leaks) = 1

(***************************************************************************)
(* C14, as claimed: the leak rule is applied to every memory series of at  *)
(* least 10 values, and a series of fewer than 10 gets no finding; so the  *)
(* 10-value series [50,52,54,56,58,70,72,74,76,78] gets exactly one        *)
(* finding and [50,60,50,60,50,60,50,60,50,60] gets none.                  *)
(***************************************************************************)
C14_LeakFromTen ==
    (HasReport /\ MemoryValues(data) # <<>>) =>
        LET series == MemoryValues(data)
            findings == Report.memory_analysis.memory_leaks
        IN /\ Len(series) >= 10 => Len(findings) = C13_Expected(series)
           /\ Len(series) < 10 => findings = <<>>
           /\ series = <<50, 52, 54, 56, 58, 70, 72, 74, 76, 78>> => Len(findings) = 1
           /\ series = <<50, 60, 50, 60, 50, 60, 50, 60, 50, 60>> => findings = <<>>

(***************************************************************************)
(* C15: for a window of N >= 5 data points with system metrics, the slope  *)
(* of each metric's trend is the least-squares slope of its values against *)
(* their positions 0..N-1, not against the timestamps; the direction is    *)
(* stable exactly when |slope| < 0.1, increasing when slope >= 0.1,        *)
(* decreasing when slope <= -0.1; start_value and end_value are the first  *)
(* and the last value.                                                     *)
(* The least-squares slope of ys against xs is                             *)
(*   (n * sum(x*y) - sum(x) * sum(y)) / (n * sum(x*x) - sum(x)^2).         *)
(***************************************************************************)
C15_LeastSquares(xs, ys) ==
    LET n == Len(ys)
    IN [num |-> n * SumSeq([i \in DOMAIN ys |-> xs[i] * ys[i]])
                - SumSeq(xs) * SumSeq(ys),
        den |-> n * SumSeq([i \in DOMAIN xs |-> xs[i] * xs[i]])
                - SumSeq(xs) * SumSeq(xs)]

C15_Direction(slope) ==
    IF slope.den = 0 THEN "stable"
    ELSE IF 10 * slope.num >= slope.den THEN "increasing"
    ELSE IF 10 * slope.num <= - slope.den THEN "decreasing"
    ELSE "stable"

RECURSIVE C15_Gcd(_, _)
C15_Gcd(a, b) == IF b = 0 THEN a ELSE C15_Gcd(b, a % b)

\* a rational in lowest terms
C15_Lowest(r) ==
    LET g == C15_Gcd(Abs(r.num), r.den)
    IN [num |-> r.num \div g, den |-> r.den \div g]

C15_Positions(values) == [i \in DOMAIN values |-> i - 1]

C15_Timestamps == [i \in DOMAIN data |-> data[i].timestamp]

C15_TrendIs(result, values) ==
    /\ C15_Lowest(result.slope) = C15_Lowest(C15_LeastSquares(C15_Positions(values), values))
    /\ result.trend = C15_Direction(C15_LeastSquares(C15_Positions(values), values))
    /\ result.start_value = values[1]
    /\ result.end_value = Last(values)

C16_StableFloor(trends, metric) ==
    /\ metric \in DOMAIN trends
    /\ trends[metric].trend = "stable"
    /\ "slope" \in DOMAIN trends[metric] => trends[metric].slope.num = 0

C17_InOrder(d) == \A i, j \in DOMAIN d : i < j => d[i].timestamp <= d[j].timestamp

RECURSIVE C17_Insert(_, _)
\* item put behind the items of an ordered window that are not later than it
C17_Insert(ordered, item) ==
    IF ordered = <<>> THEN <<item>>
    ELSE IF item.timestamp < Head(ordered).timestamp THEN <<item>> \o ordered
    ELSE <<Head(ordered)>> \o C17_Insert(Tail(ordered), item)

RECURSIVE C17_ByTimestamp(_)
\* sorted(d, key=timestamp)
C17_ByTimestamp(d) ==
    IF d = <<>> THEN <<>>
    ELSE C17_Insert(C17_ByTimestamp(SubSeq(d, 1, Len(d) - 1)), Last(d))

C17_OutOfOrderTolerated ==
    (Analysed /\ data # <<>> /\ ~ C17_InOrder(data)) =>
        \/ "error" \in DOMAIN Report
        \/ LET ordered == analyze(Caller, C17_ByTimestamp(data), Report.timestamp)
           IN /\ Report.trends = ordered.trends
              /\ Report.memory_analysis.memory_leaks
                     = ordered.memory_analysis.memory_leaks

(***************************************************************************)
(* The process samples of the window, read from the data points: a slot    *)
(* <<i, j>> is process j of data point i.                                  *)
(***************************************************************************)
ProcessSlots ==
    UNION {{<<i, j>> : j \in DOMAIN data[i].processes} : i \in DOMAIN data}

SlotProcess(slot) == data[slot[1]].processes[slot[2]]

NamesInWindow == {SlotProcess(slot).name : slot \in ProcessSlots}

SlotsOf(name) == {slot \in ProcessSlots : SlotProcess(slot).name = name}

\* slot s is visited before slot t
SlotBefore(s, t) == s[1] < t[1] \/ (s[1] = t[1] /\ s[2] < t[2])

FirstSlotOf(name) ==
    CHOOSE s \in SlotsOf(name) : \A t \in SlotsOf(name) : s = t \/ SlotBefore(s, t)

\* the sum of a field over the process samples of a name
TotalOf(name, field) ==
    SumSeq([i \in DOMAIN data |->
               SumSeq([j \in DOMAIN data[i].processes |->
                          IF data[i].processes[j].name = name
                          THEN data[i].processes[j][field] ELSE 0])])

StatsOf(name) == Report.process_analysis.process_stats[name]

(***************************************************************************)
(* C18: each of top_cpu_processes and top_memory_processes holds           *)
(* min(10, number of distinct names) entries, in order of non-increasing   *)
(* average (CPU, memory), names of equal average in the order they were    *)
(* first seen in the window, and leaves out no name whose average is       *)
(* above that of a name it holds.                                          *)
(***************************************************************************)
\* a < b for two averages
C18_Less(a, b) == a.num * b.den < b.num * a.den

C18_Ranked(ranking, field) ==
    LET listed == {ranking[i][1] : i \in DOMAIN ranking}
    IN /\ Len(ranking) = (IF Cardinality(NamesInWindow) < 10
                          THEN Cardinality(NamesInWindow) ELSE 10)
       /\ listed \subseteq NamesInWindow
       /\ \A i \in DOMAIN ranking : ranking[i][2] = StatsOf(ranking[i][1])
       /\ \A i, j \in DOMAIN ranking :
              i < j =>
                  /\ ~ C18_Less(ranking[i][2][field], ranking[j][2][field])
                  /\ ~ C18_Less(ranking[j][2][field], ranking[i][2][field])
                         => SlotBefore(FirstSlotOf(ranking[i][1]),
                                       FirstSlotOf(ranking[j][1]))
       /\ \A name \in NamesInWindow \ listed, i \in DOMAIN ranking :
              ~ C18_Less(ranking[i][2][field], StatsOf(name)[field])

C18_Rankings ==
    HasReport =>
        /\ C18_Ranked(Report.process_analysis.top_cpu_processes, "avg_cpu")
        /\ C18_Ranked(Report.process_analysis.top_memory_processes, "avg_memory")

\* more than 10 names, of which the one left out of the CPU ranking ties
\* with one that is listed, and B seen before A but listed behind it
C18_Witness ==
    /\ HasReport
    /\ Cardinality(NamesInWindow) > 10
    /\ Len(Report.process_analysis.top_cpu_processes) = 10
    /\ LET ranking == Report.process_analysis.top_cpu_processes
           listed == {ranking[i][1] : i \in DOMAIN ranking}
       IN /\ \E name \in NamesInWindow \ listed :
                 StatsOf(name).avg_cpu = ranking[10][2].avg_cpu
          /\ ranking[1][1] = "A"
          /\ "B" \in listed
          /\ SlotBefore(FirstSlotOf("B"), FirstSlotOf("A"))

(***************************************************************************)
(* C19: total_unique_processes is the number of distinct process names of  *)
(* the window; for every name, instance_count is the number of process     *)
(* samples of that name over all data points, whatever their pids, and the *)
(* average and the maximum of CPU and memory are those of exactly these    *)
(* process samples.                                                        *)
(***************************************************************************)
C19_Aggregate(name, stats) ==
    LET count == Cardinality(SlotsOf(name))
        cpus == {SlotProcess(slot).cpu_percent : slot \in SlotsOf(name)}
        mems == {SlotProcess(slot).memory_percent : slot \in SlotsOf(name)}
    IN /\ stats.instance_count = count
       /\ stats.avg_cpu.num * count = TotalOf(name, "cpu_percent") * stats.avg_cpu.den
       /\ stats.avg_memory.num * count
              = TotalOf(name, "memory_percent") * stats.avg_memory.den
       /\ stats.max_cpu \in cpus /\ \A c \in cpus : c <= stats.max_cpu
       /\ stats.max_memory \in mems /\ \A m \in mems : m <= stats.max_memory

C19_GroupedByName ==
    HasReport =>
        /\ Report.process_analysis.total_unique_processes = Cardinality(NamesInWindow)
        /\ DOMAIN Report.process_analysis.process_stats = NamesInWindow
        /\ \A name \in NamesInWindow : C19_Aggregate(name, StatsOf(name))

\* a name seen under two pids in one data point and again in another
C19_Witness ==
    /\ HasReport
    /\ "A" \in NamesInWindow
    /\ Cardinality({SlotProcess(slot).pid : slot \in SlotsOf("A")}) = 2
    /\ Cardinality({slot[1] : slot \in SlotsOf("A")}) = 2
    /\ StatsOf("A").instance_count = 3
    /\ StatsOf("A").max_cpu = 70
    /\ "B" \in NamesInWindow

(***************************************************************************)
(* C20, as claimed: for every process name, the reported duration is the   *)
(* latest timestamp minus the earliest timestamp among the data points in  *)
(* which the name appears, and so is never negative, in whatever order the *)
(* data points are given.                                                  *)
(***************************************************************************)
\* the timestamps of the data points in which the name appears
C20_SeenAt(name) == {data[slot[1]].timestamp : slot \in SlotsOf(name)}

C20_ObservedDuration ==
    HasReport =>
        \A name \in NamesInWindow :
            /\ StatsOf(name).duration >= 0
            /\ \E earliest \in C20_SeenAt(name), latest \in C20_SeenAt(name) :
                   /\ \A t \in C20_SeenAt(name) : earliest <= t /\ t <= latest
                   /\ StatsOf(name).duration = latest - earliest

(***************************************************************************)
(* C21: whenever the average CPU over the window is above 95, the          *)
(* deductions attributable to CPU are exactly 40, 30 for the average and   *)
(* 10 for the peak, never 30 alone; the same holds for memory.  The        *)
(* deductions attributable to a metric are what the health score gains     *)
(* when every reading of that metric in the window is replaced by a calm   *)
(* one, 50.                                                                *)
(***************************************************************************)
C21_Calmed(d, field) ==
    [i \in DOMAIN d |->
        IF HasSystem(d[i])
        THEN [d[i] EXCEPT !.system = [@ EXCEPT ![field] = 50]]
        ELSE d[i]]

C21_Attributable(field) ==
    analyze_system_health(Caller, C21_Calmed(data, field)).health_score - Score

C21_AverageAbove(values, k) == SumSeq(values) > k * Len(values)

C21_CriticalAverageCostsForty ==
    HasScore =>
        /\ C21_AverageAbove(CpuValues(data), 95) => C21_Attributable("cpu_percent") = 40
        /\ C21_AverageAbove(MemoryValues(data), 95) =>
               C21_Attributable("memory_percent") = 40

\* two readings; the CPU average is above 95 and the memory average is not,
\* though the memory peak is
C21_Witness ==
    /\ HasScore
    /\ Len(data) = 2
    /\ C21_AverageAbove(CpuValues(data), 95)
    /\ ~ C21_AverageAbove(MemoryValues(data), 95)
    /\ MaxOf(MemoryValues(data)) > 95
    /\ C21_Attributable("cpu_percent") = 40

(***************************************************************************)
(* C22: in every report, summary.critical_issues is exactly the sequence   *)
(* of the titles of the report's high-priority recommendations, in         *)
(* recommendation order, and is empty when the report has no high-priority *)
(* recommendation.                                                         *)
(***************************************************************************)
RECURSIVE C22_HighTitles(_)
C22_HighTitles(recommendations) ==
    IF recommendations = <<>> THEN <<>>
    ELSE (IF Head(recommendations).priority = "high"
          THEN <<Head(recommendations).title>> ELSE <<>>)
         \o C22_HighTitles(Tail(recommendations))

C22_CriticalIssuesAreHighTitles ==
    HasReport =>
        /\ Report.summary.critical_issues = C22_HighTitles(Report.recommendations)
        /\ (\A i \in DOMAIN Report.recommendations :
                Report.recommendations[i].priority # "high")
               => Report.summary.critical_issues = <<>>

\* a high-priority recommendation between two of medium priority
C22_Witness ==
    /\ HasReport
    /\ Len(Report.recommendations) = 3
    /\ Report.recommendations[1].priority = "medium"
    /\ Report.recommendations[2].priority = "high"
    /\ Report.recommendations[3].priority = "medium"
    /\ Report.summary.critical_issues = <<"memory usage too high">>

(***************************************************************************)
(* C23, as claimed: for every non-empty window of fewer than 5 samples,    *)
(* analyze returns a report, not the no-data error, whose trend, anomaly   *)
(* and leak sections are empty or omitted.                                 *)
(***************************************************************************)
C23_ShortWindow == HasReport /\ Len(data) < 5

\* the section is left out of the record or holds nothing
C23_EmptyOrOmitted(record, section) ==
    section \in DOMAIN record => ~ Truthy(record[section])

C23_Names ==
    {data[i].processes[j].name : <<i, j>> \in
        {<<i, j>> \in (1..Len(data)) \X (1..2) : j \in DOMAIN data[i].processes}}

C23_Smaller(a, b) == IF a < b THEN a ELSE b

C23_ComputedAsUsual ==
    /\ WithSystem(data) # <<>> =>
           /\ Report.system_health.health_score
                  = 100 - C1_Deduction(CpuValues(data)) - C1_Deduction(MemoryValues(data))
           /\ Report.cpu_analysis.average.num * Len(CpuValues(data))
                  = SumSeq(CpuValues(data)) * Report.cpu_analysis.average.den
           /\ Report.cpu_analysis.maximum = MaxOf(CpuValues(data))
           /\ Report.memory_analysis.average_percent.num * Len(MemoryValues(data))
                  = SumSeq(MemoryValues(data)) * Report.memory_analysis.average_percent.den
           /\ Report.memory_analysis.minimum_percent = MinOf(MemoryValues(data))
    /\ Report.process_analysis.total_unique_processes = Cardinality(C23_Names)
    /\ Len(Report.process_analysis.top_cpu_processes)
           = C23_Smaller(Cardinality(C23_Names), 10)
    /\ {Report.process_analysis.top_memory_processes[i][1] :
            i \in DOMAIN Report.process_analysis.top_memory_processes} = C23_Names
    /\ PrioritiesOf(Report.recommendations, {"cpu_high", "cpu_medium"})
           = C6_Expected(LatestPercent("cpu_percent"))
    /\ PrioritiesOf(Report.recommendations, {"memory_high", "memory_medium"})
           = C6_Expected(LatestPercent("memory_percent"))

C24_IsZero(deviation) == deviation.num = 0 /\ deviation.den > 0

C24_SingleSampleDeviationIsZero ==
    (HasReport /\ Len(WithSystem(data)) = 1) =>
        /\ "error" \notin DOMAIN Report
        /\ C24_IsZero(Report.cpu_analysis.std_deviation)
        /\ C24_IsZero(Report.memory_analysis.std_deviation)

\* a window of one sample, with its statistics
C24_Witness ==
    /\ HasReport
    /\ Len(data) = 1
    /\ Len(WithSystem(data)) = 1
    /\ Report.cpu_analysis.average = [num |-> 96, den |-> 1]
    /\ Report.memory_analysis.average_percent = [num |-> 80, den |-> 1]
    /\ C24_IsZero(Report.cpu_analysis.std_deviation)
    /\ C24_IsZero(Report.memory_analysis.std_deviation)

(***************************************************************************)
(* C25: with --continuous and auto-report, each time the elapsed           *)
(* collection time has reached the configured duration at the check of the *)
(* loop, a report of the buffer is written; then the buffer is emptied,    *)
(* the collection clock restarted and the loop goes on.  Hence a periodic  *)
(* report covers only data points collected after the periodic report      *)
(* before it, and no data point is in two periodic reports.                *)
(***************************************************************************)
C25_Continuous ==
    cli.args.continuous /\ cli.args.auto_report /\ ~ cli.args.report_only

\* the step is one of the program, not the arrival of a signal
C25_ProgramStep == cli'.running = cli.running

C25_ReportWhenDue ==
    (/\ C25_Continuous /\ C25_ProgramStep
     /\ pc = "check"
     /\ clock - cli.collection_start_time >= cli.args.duration)
    => /\ Len(reports') = Len(reports) + 1
       /\ Last(reports').collected_data = data
       /\ Last(reports').kind = "periodic"
       /\ pc' = "reported"

C25_RestartAfterReport ==
    (C25_Continuous /\ C25_ProgramStep /\ pc = "reported")
    => /\ data' = <<>>
       /\ cli'.collection_start_time = clock
       /\ pc' = "sleep"

C25_Stamps(report) ==
    {report.collected_data[i].timestamp : i \in DOMAIN report.collected_data}

C25_Periodic == {i \in DOMAIN reports : reports[i].kind = "periodic"}

C25_ReportsApart ==
    C25_Continuous =>
        \A i \in C25_Periodic, j \in C25_Periodic :
            i < j => /\ C25_Stamps(reports[i]) \cap C25_Stamps(reports[j]) = {}
                     /\ \A t \in C25_Stamps(reports[j]) : t > reports[i].at

C25_KeepsRunning ==
    (C25_Continuous /\ pc = "reported")
        ~> (pc = "loop" \/ ~ cli.running \/ clock = MaxClock)

C25_ContinuousMode ==
    /\ [][C25_ReportWhenDue /\ C25_RestartAfterReport]_vars
    /\ []C25_ReportsApart
    /\ C25_KeepsRunning

\* two periodic reports, and collection started again after the second
C25_Witness ==
    /\ C25_Continuous
    /\ Len(reports) = 2
    /\ C25_Periodic = {1, 2}
    /\ Len(reports[2].collected_data) = 2
    /\ data = <<>>
    /\ pc = "sleep"

(***************************************************************************)
(* C26: in the interactive loop without --continuous and with auto-report, *)
(* the loop stops at the first check at which the elapsed collection time  *)
(* has reached the duration, and a run that ends that way has written      *)
(* exactly one report: the report is not written a second time on the way  *)
(* out.                                                                    *)
(***************************************************************************)
C26_OneShot ==
    ~ cli.args.continuous /\ cli.args.auto_report /\ ~ cli.args.report_only

\* the run ended by itself, no signal arrived
C26_Completed == pc = "exited" /\ cli.running

C26_ExactlyOneReport ==
    (C26_OneShot /\ C26_Completed) =>
        /\ clock - cli.collection_start_time >= cli.args.duration
        /\ Len(reports) = 1
        /\ reports[1].collected_data = data

(***************************************************************************)
(* C27: when SIGINT or SIGTERM arrives with auto-report enabled and data   *)
(* points in the buffer, a report of them is written before the process    *)
(* is gone, in the interactive mode and in the --report-only mode alike,   *)
(* and no data point is collected after the signal.                        *)
(***************************************************************************)
\* _signal_handler has run: nothing else clears running
C27_Signalled == ~ cli.running

C27_BufferReported == \E i \in DOMAIN reports : reports[i].collected_data = data

C27_ReportedBeforeExit ==
    (C27_Signalled /\ pc = "exited" /\ cli.args.auto_report /\ data # <<>>)
        => C27_BufferReported

C27_NothingCollectedAfter == C27_Signalled => data' = data

\* the same in the interactive mode alone
C27_InteractiveReportedBeforeExit ==
    ~ cli.args.report_only => C27_ReportedBeforeExit

C27_NoDataLostOnSignal ==
    /\ []C27_ReportedBeforeExit
    /\ [][C27_NothingCollectedAfter]_vars

(***************************************************************************)
(* C28: the health score and the key findings shown in a report written    *)
(* by the command line program are the health score and the key findings   *)
(* its analysis step computed for the same collected data.                 *)
(***************************************************************************)
C28_ReportShowsAnalysis ==
    \A i \in DOMAIN reports :
        /\ reports[i].analysis_result = simple_analysis(reports[i].collected_data)
        /\ reports[i].report_data.health_summary.health_score
               = reports[i].analysis_result.overall_health
        /\ reports[i].report_data.health_summary.key_findings
               = reports[i].analysis_result.key_findings

(***************************************************************************)
(* C29: every CPU spike entry of cpu_analysis carries the timestamp of the *)
(* sample its value was read from, also in a window where samples without  *)
(* system metrics are skipped when the CPU series is built.                *)
(***************************************************************************)
\* the samples the CPU series is built from, in window order
C29_Read == SelectSeq(data, LAMBDA item : item.system # EmptyDict)

C29_SpikeTimestamps ==
    (HasReport /\ Truthy(Report.cpu_analysis)) =>
        \A k \in DOMAIN Report.cpu_analysis.spikes :
            LET spike == Report.cpu_analysis.spikes[k]
                sample == C29_Read[spike.index + 1]
            IN /\ spike.value = sample.system.cpu_percent
               /\ spike.timestamp = sample.timestamp

(***************************************************************************)
(* C30: the two CPU trend verdicts of one report agree: for every window   *)
(* of at least 6 samples that all carry system metrics, cpu_analysis.trend *)
(* has the direction of trends.cpu.trend.                                  *)
(***************************************************************************)
C30_TrendVerdictsAgree ==
    (HasReport /\ Len(data) >= 6 /\ \A i \in DOMAIN data : HasSystem(data[i])) =>
        Report.cpu_analysis.trend = Report.trends.cpu.trend

====
